---- MODULE Spec2Model ----
(***************************************************************************)
(* Model of the tuotehaku showcase: the two supplier importers             *)
(* (backend/supplier_update_example.py, the XML importer of supplier 1;    *)
(* supplier_import_legacy.py, the CSV importer of supplier 2), the pricing *)
(* rule (pricing_example.py), the product table they write, and the search *)
(* endpoint that reads it (app_showcase.py).                               *)
(*                                                                         *)
(* Money is counted in cents, VAT in permille, raw stock quantities in     *)
(* tenths of a unit (so that int(float(x)) truncates something).  Text is  *)
(* a sequence of one-character strings.                                    *)
(***************************************************************************)
EXTENDS Integers, Sequences, FiniteSets, TLC

\* ------------------------------------------------------------------ bounds
\* Longest feed (records of one supplier payload) the model enumerates.
MaxFeed == 2
\* Commit interval of the record loops.  The source commits every 5000
\* inserts; the model scales the interval down so that a feed crosses it.
BATCH_SIZE == 2

\* Pieces a query text is put together from.
MaxPieces == 3
\* Largest page size and offset requested (the endpoint allows 200 and any).
MaxLimit == 2
MaxOffset == 2

\* ------------------------------------------------------- program constants
SUPPLIER_ID_XML == 1
SUPPLIER_ID_CSV == 2
\* fetch_supplier_data(retries=3, delay=30)
retries == 3
\* VAT rates in permille: 0.255
VAT_RATE == 255
PricingEngine_VAT_RATE == 255
\* len(cols) < 7
MinCols == 7

Importers == {"xml", "csv"}
NULL == "NULL"

\* ------------------------------------------------------------- raw values
\* A loosely typed source value: a number, an unparsable text, or nothing.
Num(n) == [k |-> "num", v |-> n]
Bad == [k |-> "bad", v |-> 0]
Absent == [k |-> "none", v |-> 0]
\* A field that is there and holds the empty string.
Empty == [k |-> "empty", v |-> 0]

\* float(x or 0): None and "" give 0, a number parses, anything else raises
\* ValueError.  The result is [ok, v].
ParseFloat(x) ==
  CASE x.k \in {"none", "empty"} -> [ok |-> TRUE, v |-> 0]
    [] x.k = "num" -> [ok |-> TRUE, v |-> x.v]
    [] OTHER -> [ok |-> FALSE, v |-> 0]

\* int(f) on a quantity given in tenths: truncation toward zero.
IntOfTenths(t) == IF t >= 0 THEN t \div 10 ELSE -((-t) \div 10)

\* round(x, 2) of the exact quotient n / d, in cents (ties to even, as
\* Python's round; the prices enumerated below produce no tie).
RoundDiv(n, d) ==
  LET q == n \div d
      r == n % d
  IN  IF 2 * r > d THEN q + 1
      ELSE IF 2 * r < d THEN q
      ELSE IF q % 2 = 0 THEN q ELSE q + 1

VARIABLES
  pricingRate,  \* the value PricingEngine.VAT_RATE holds, in permille
  quote         \* a net price and the gross prices the two adapters give it

pricingVars == <<pricingRate, quote>>

\* PricingEngine.calculate_gross_price(net_price)
calculate_gross_price(net_price) ==
  RoundDiv(net_price * (1000 + pricingRate), 1000)

\* The XML importer's own line: round(net_price * (1 + VAT_RATE), 2)
XmlGrossPrice(net_price) ==
  RoundDiv(net_price * (1000 + VAT_RATE), 1000)

\* ------------------------------------------------------------------ store
\* A row of the products table.
Row(sid, ean, name, brand, price, price_inc, stock, link) ==
  [supplier_id |-> sid, ean |-> ean, name |-> name, brand |-> brand,
   price |-> price, price_inc |-> price_inc, stock |-> stock, link |-> link]

NoRow == Row(0, NULL, <<>>, <<>>, 0, 0, 0, "")

\* Statements of a connection that are executed and not yet committed.
DeleteOp(sid) == [op |-> "delete", sid |-> sid, row |-> NoRow]
InsertOp(row) == [op |-> "insert", sid |-> row.supplier_id, row |-> row]

\* (mutant: the DELETE removes nothing)
DeleteNothing(table, sid) == table

\* (mutant: a DELETE without its WHERE clause)
DeleteEverySupplier(table, sid) == <<>>

\* (mutant: the WHERE clause turned around)
DeleteOtherSuppliers(table, sid) ==
  SelectSeq(table, LAMBDA r : r.supplier_id = sid)

\* DELETE FROM products WHERE supplier_id = %s
ExecDelete(table, sid) ==
  SelectSeq(table, LAMBDA r : r.supplier_id # sid)

\* The unique key of the table: (supplier_id, ean); NULL never conflicts.
Conflicts(table, row) ==
  {i \in 1..Len(table) :
     /\ row.ean # NULL
     /\ table[i].supplier_id = row.supplier_id
     /\ table[i].ean = row.ean}

\* INSERT ... ON DUPLICATE KEY UPDATE price = VALUES(price),
\* stock = VALUES(stock), updated_at = NOW()
ExecInsert(table, row) ==
  IF Conflicts(table, row) = {}
    THEN Append(table, row)
    ELSE LET i == CHOOSE j \in Conflicts(table, row) : TRUE
         IN  [table EXCEPT ![i].price = row.price, ![i].stock = row.stock]

ExecOp(table, o) ==
  IF o.op = "delete" THEN ExecDelete(table, o.sid) ELSE ExecInsert(table, o.row)

RECURSIVE Apply(_, _)
Apply(table, ops) ==
  IF ops = <<>> THEN table
  ELSE Apply(ExecOp(table, Head(ops)), Tail(ops))


\* Rows of one supplier, in table order.
SupplierRows(table, sid) ==
  SelectSeq(table, LAMBDA r : r.supplier_id = sid)

Range(f) == {f[i] : i \in DOMAIN f}
CountIn(seq, x) == Cardinality({i \in DOMAIN seq : seq[i] = x})
\* The two sequences hold the same rows the same number of times.
SameRows(a, b) ==
  /\ Len(a) = Len(b)
  /\ \A r \in Range(a) \cup Range(b) : CountIn(a, r) = CountIn(b, r)

\* --------------------------------------------------------------- XML feed
\* One <Product> of the price list, as xmltodict hands it over.
XmlProduct(idsIsList, barcode, itemNumber, netPrice, onHand, productName, productNameWeb, brandText, storeRejects) ==
  [IdentifiersIsList |-> idsIsList, Barcode |-> barcode,
   ItemNumber |-> itemNumber, NetPrice |-> netPrice, OnHand |-> onHand,
   ProductName |-> productName, ProductNameWeb |-> productNameWeb,
   Brand |-> brandText, storeRejects |-> storeRejects]

TxtUsbHub == <<"U", "s", "b", " ", "h", "u", "b">>
TxtCable == <<"c", "a", "b", "l", "e">>
TxtAcme == <<"A", "c", "m", "e">>
TxtProductSuffix == <<" ", "P", "r", "o", "d", "u", "c", "t">>

\* The products the model feeds to the XML importer.
XmlProducts ==
  { XmlProduct(FALSE, "e1", "i1", Num(1000), Num(57), TxtUsbHub, <<>>, TxtAcme, FALSE),
    XmlProduct(FALSE, "e1", "", Num(250), Absent, <<>>, TxtCable, TxtAcme, FALSE),
    XmlProduct(FALSE, "", "i2", Bad, Num(30), <<>>, <<>>, TxtAcme, FALSE),
    XmlProduct(FALSE, "", "", Num(199), Num(-25), TxtCable, <<>>, <<>>, FALSE),
    XmlProduct(TRUE, "", "i3", Num(199), Num(10), TxtCable, <<>>, TxtAcme, FALSE),
    XmlProduct(FALSE, "e2", "", Num(199), Bad, TxtCable, <<>>, TxtAcme, TRUE) }

SeqsUpTo(S, n) == UNION {[1..k -> S] : k \in 0..n}

XmlSources == SeqsUpTo(XmlProducts, MaxFeed)

\* A node of the parsed tree (what json.load gives back): a mapping with
\* its keyed children, a list, a text or None.  A <Product> mapping is a
\* "dict" node that carries the product's fields in items.
DictNode(kids) == [t |-> "dict", kids |-> kids, items |-> <<>>]
ProductNode(p) == [t |-> "dict", kids |-> <<>>, items |-> <<p>>]
ListNode(ps) == [t |-> "list", kids |-> <<>>, items |-> ps]
StrNode == [t |-> "str", kids |-> <<>>, items |-> <<>>]
NoneNode == [t |-> "none", kids |-> <<>>, items |-> <<>>]

ProductPath == <<"ns0:PriceList", "Products", "Product">>

\* The tree of a price list around the node found at Product.
PriceListTree(product) ==
  DictNode("ns0:PriceList" :> DictNode("Products" :> DictNode("Product" :> product)))

\* xmltodict.parse: an element without children parses to None, one
\* <Product> gives a mapping, several give a list.
XmlToDict(src) ==
  IF Len(src) = 0 THEN DictNode("ns0:PriceList" :> DictNode("Products" :> NoneNode))
  ELSE IF Len(src) = 1 THEN PriceListTree(ProductNode(src[1]))
  ELSE PriceListTree(ListNode(src))

\* Lines 129-140: _safe_get(data, *keys)
RECURSIVE _safe_get(_, _)
_safe_get(data, keys) ==
  IF keys = <<>> THEN data
  ELSE IF data.t = "dict"
    THEN _safe_get(IF Head(keys) \in DOMAIN data.kids THEN data.kids[Head(keys)] ELSE NoneNode,
                   Tail(keys))
    ELSE NoneNode

\* Python truth of a node: None, "", {} and [] are false.
NodeTruthy(node) ==
  \/ node.t = "str"
  \/ node.t = "list" /\ node.items # <<>>
  \/ node.t = "dict" /\ (node.items # <<>> \/ DOMAIN node.kids # {})

\* (mutant: a single mapping is not wrapped into a list)
ProductsListUnwrapped(data) ==
  LET products_list == _safe_get(data, ProductPath)
  IN  IF products_list.t = "list" THEN products_list.items ELSE <<>>

\* Lines 162-170: products_list, empty when the path yields nothing (the
\* function then returns); a single mapping becomes a one-element list.
ProductsList(data) ==
  LET products_list == _safe_get(data, ProductPath)
  IN  IF ~NodeTruthy(products_list) THEN <<>>
      ELSE IF products_list.t = "dict" THEN <<products_list.items[1]>>
      ELSE products_list.items

\* Lines 189-240: the values of one product, or raised = TRUE when the
\* normalisation raises (caught by the loop's except).
XmlNormalize(row) ==
  LET brand == row.Brand
      name == IF row.ProductName # <<>> THEN row.ProductName
              ELSE IF row.ProductNameWeb # <<>> THEN row.ProductNameWeb
              ELSE brand \o TxtProductSuffix
      raised == row.Barcode = "" /\ row.IdentifiersIsList
      ean == IF row.Barcode # "" THEN row.Barcode ELSE row.ItemNumber
      p == ParseFloat(row.NetPrice)
      s == ParseFloat(row.OnHand)
      parsed == p.ok /\ s.ok
      net_price == IF parsed THEN p.v ELSE 0
      gross_price == IF parsed THEN XmlGrossPrice(net_price) ELSE 0
      stock == IF parsed THEN IntOfTenths(s.v) ELSE 0
  IN  [raised |-> raised,
       vals |-> Row(SUPPLIER_ID_XML, ean, name, brand, net_price, gross_price, stock, "#")]


\* --------------------------------------------------------------- CSV feed
\* One line of the price list (the semicolon-separated first column) and
\* the number of fields it splits into.
CsvLine(ncols, brandText, product_id, nameText, stockRaw, priceRaw, ean, storeRejects) ==
  [ncols |-> ncols, brand |-> brandText, product_id |-> product_id,
   name |-> nameText, stock |-> stockRaw, price |-> priceRaw, ean |-> ean,
   storeRejects |-> storeRejects]

CsvLines ==
  { CsvLine(7, TxtAcme, "p1", TxtUsbHub, Num(57), Num(1000), "e1", FALSE),
    CsvLine(7, TxtAcme, "p2", TxtCable, Absent, Num(250), "e1", FALSE),
    CsvLine(7, TxtAcme, "p1", TxtCable, Bad, Num(199), "", FALSE),
    CsvLine(7, TxtAcme, "", TxtCable, Num(-25), Num(199), "", FALSE),
    CsvLine(5, TxtAcme, "p2", TxtCable, Num(10), Num(199), "e2", FALSE),
    CsvLine(7, TxtAcme, "p3", TxtCable, Num(10), Bad, "e2", TRUE) }

ProductIds == {"", "p1", "p2", "p3"}

\* The stock file: ProductID -> AvailableQuantity (Absent: no line).
StockFiles ==
  { [p \in ProductIds |-> Absent],
    [p \in ProductIds |->
       IF p = "p1" THEN Num(403) ELSE IF p = "p2" THEN Bad ELSE Absent],
    [p \in ProductIds |->
       IF p = "p1" THEN Num(0) ELSE IF p = "p2" THEN Num(-30)
       ELSE IF p = "p3" THEN Empty ELSE Absent] }

CsvSources ==
  {[lines |-> l, stock |-> st] : l \in SeqsUpTo(CsvLines, MaxFeed), st \in StockFiles}

\* if external_stock: the truth value of a looked-up quantity.  The stock
\* file is read with dtype=str, so every quantity is a string: None (no
\* line) and "" are false, every other string is true, "0" included.
Truthy(x) == x.k \notin {"none", "empty"}

\* (mutant: the price list's own stock always stands)
PrimaryStockStands(external_stock, base_stock) == [ok |-> TRUE, v |-> base_stock]

\* Lines 210-214: final_stock, or ok = FALSE when int(float(...)) raises.
FinalStock(external_stock, base_stock) ==
  IF Truthy(external_stock)
    THEN [ok |-> ParseFloat(external_stock).ok,
          v |-> IntOfTenths(ParseFloat(external_stock).v)]
    ELSE [ok |-> TRUE, v |-> base_stock]

\* Lines 181-247: the outcome of one price-list line.  kind is "short"
\* (fewer than 7 fields), "noid" (neither product id nor EAN), "raised"
\* (the secondary stock does not parse; the loop's except catches it) or
\* "row" with the values to insert.
CsvNormalize(line, stock_map) ==
  LET st == ParseFloat(line.stock)
      pr == ParseFloat(line.price)
      parsed == st.ok /\ pr.ok
      base_stock == IF parsed THEN IntOfTenths(st.v) ELSE 0
      price == IF parsed THEN pr.v ELSE 0
      external_stock == stock_map[line.product_id]
      fs == FinalStock(external_stock, base_stock)
      final_stock == fs.v
      price_inc == calculate_gross_price(price)
      kind == IF line.ncols < MinCols THEN "short"
              ELSE IF line.product_id = "" /\ line.ean = "" THEN "noid"
              ELSE IF ~fs.ok THEN "raised"
              ELSE "row"
  IN  [kind |-> kind,
       vals |-> Row(SUPPLIER_ID_CSV, IF line.ean # "" THEN line.ean ELSE NULL,
                    line.name, line.brand, price, price_inc, final_stock,
                    line.product_id)]

\* ------------------------------------------------------------------ state
VARIABLES
  products,    \* the committed products table
  xmlSource,   \* what supplier 1's API serves
  csvSource,   \* what supplier 2's SFTP server holds
  scripts,     \* the importer scripts that get run in this behaviour
  pc,          \* per importer: where its run stands
  feed,        \* per importer: the raw records it iterates over
  pos,         \* per importer: index of the next record
  inserted,    \* per importer: inserted_count / inserted
  skipped,     \* per importer: skipped_count / skipped
  pending,     \* per importer: statements executed and not yet committed
  connUp,      \* per importer: its store connection is alive
  failedAt,    \* per importer: the step whose exception ended the run
  summary,     \* per importer: the counts of the final log line
  prevRows,    \* per importer: its rows after the previous run, if completed
  attempt,     \* XML: the fetch loop's attempt
  sleeps,      \* XML: time.sleep(delay) calls of this fetch
  resp,        \* XML: the downloaded payload
  cacheFile,   \* XML: LOCAL_CACHE_FILE
  local_zip,   \* CSV: what download_files_via_sftp returned
  stock_map,   \* CSV: the stock lookup table
  searchPc,    \* search request: "idle", "connected", "responded"
  req,         \* search request: its query parameters
  executed,    \* search request: the statement sent to the store
  response,    \* search request: what the caller receives
  search_cache,  \* app.py: the entries of the TTLCache
  now,           \* app.py: the cache's timer, in seconds
  traffic,       \* app.py: the requests clients send in this behaviour
  cachePc,       \* app.py request: "idle", "check", "hit", "miss", "responded"
  cacheReq,      \* app.py request: its query parameters
  cacheResp,     \* app.py request: what the caller receives
  storeQueries,  \* app.py request: statements it executed on the store
  reload         \* POST /reload-data: the token on disk, the header, the outcome

importVars ==
  <<products, xmlSource, csvSource, scripts, pc, feed, pos, inserted, skipped, pending,
    connUp, failedAt, summary, prevRows, attempt, sleeps, resp, cacheFile,
    local_zip, stock_map>>

searchVars == <<searchPc, req, executed, response>>

cacheVars ==
  <<search_cache, now, traffic, cachePc, cacheReq, cacheResp, storeQueries>>

vars == <<importVars, searchVars, cacheVars, pricingVars, reload>>

SupplierOf(i) == IF i = "xml" THEN SUPPLIER_ID_XML ELSE SUPPLIER_ID_CSV

\* What importer i's connection sees: the table with its own open
\* transaction applied.
View(i) == Apply(products, pending[i])

NoFile == [exists |-> FALSE, data |-> XmlToDict(<<>>)]
NoSummary == [inserted |-> -1, skipped |-> -1]
NoPrev == [known |-> FALSE, rows |-> <<>>]
NoStock == [p \in ProductIds |-> Absent]
NoCsv == [lines |-> <<>>, stock |-> NoStock]

\* Rows left by earlier runs (of other feeds) when the behaviour starts.
OldXmlRow == Row(SUPPLIER_ID_XML, "e1", TxtCable, TxtAcme, 400, 502, 3, "#")
OldCsvRow == Row(SUPPLIER_ID_CSV, NULL, TxtCable, TxtAcme, 400, 502, 3, "p9")
InitStores == {<<>>, <<OldXmlRow, OldCsvRow>>}

\* No reload request yet; RELOAD_TOKEN is not set.
NoReload == [token |-> <<>>, pc |-> "idle", header |-> <<>>, given |-> FALSE, status |-> 0, launched |-> FALSE]
ReloadIdle == reload = NoReload

\* The calculator as shipped, nothing priced yet.
NoQuote == [known |-> FALSE, net |-> 0, xml |-> 0, csv |-> 0]
PricingIdle ==
  /\ pricingRate = PricingEngine_VAT_RATE
  /\ quote = NoQuote

\* No importer process exists yet.
ImportersIdle ==
  /\ pc = [i \in Importers |-> "idle"]
  /\ feed = [i \in Importers |-> <<>>]
  /\ pos = [i \in Importers |-> 1]
  /\ inserted = [i \in Importers |-> 0]
  /\ skipped = [i \in Importers |-> 0]
  /\ pending = [i \in Importers |-> <<>>]
  /\ connUp = [i \in Importers |-> FALSE]
  /\ failedAt = [i \in Importers |-> "none"]
  /\ summary = [i \in Importers |-> NoSummary]
  /\ prevRows = [i \in Importers |-> NoPrev]
  /\ attempt = 0
  /\ sleeps = 0
  /\ resp = <<>>
  /\ cacheFile = NoFile
  /\ local_zip = "none"
  /\ stock_map = NoStock


\* ----------------------------------------------------------- run skeleton
Stopped(i) == pc[i] \in {"idle", "done", "failed"}

\* A script is started when its previous process has ended.  The scripts
\* are separate processes: the reload endpoint runs them one after the
\* other, a scheduler or a shell may run them side by side.
MayStart(i) ==
  /\ i \in scripts
  /\ Stopped(i)

\* A new process of importer i: fresh counters, no connection.
StartRun(i) ==
  /\ MayStart(i)
  /\ pc' = [pc EXCEPT ![i] = "fetch"]
  /\ feed' = [feed EXCEPT ![i] = <<>>]
  /\ pos' = [pos EXCEPT ![i] = 1]
  /\ inserted' = [inserted EXCEPT ![i] = 0]
  /\ skipped' = [skipped EXCEPT ![i] = 0]
  /\ pending' = [pending EXCEPT ![i] = <<>>]
  /\ connUp' = [connUp EXCEPT ![i] = FALSE]
  /\ failedAt' = [failedAt EXCEPT ![i] = "none"]
  /\ summary' = [summary EXCEPT ![i] = NoSummary]
  /\ prevRows' = [prevRows EXCEPT ![i] =
                    IF pc[i] = "done"
                      THEN [known |-> TRUE, rows |-> SupplierRows(products, SupplierOf(i))]
                      ELSE NoPrev]
  /\ UNCHANGED <<searchVars, cacheVars, pricingVars, reload, products, xmlSource, csvSource, scripts>>

\* An exception leaves the run: the process ends, its connection closes and
\* the server rolls its open transaction back.
Fail(i, at) ==
  /\ pc' = [pc EXCEPT ![i] = "failed"]
  /\ failedAt' = [failedAt EXCEPT ![i] = at]
  /\ pending' = [pending EXCEPT ![i] = <<>>]
  /\ connUp' = [connUp EXCEPT ![i] = FALSE]

\* The function returns without an error.
Finish(i, counts) ==
  /\ pc' = [pc EXCEPT ![i] = "done"]
  /\ summary' = [summary EXCEPT ![i] = counts]
  /\ pending' = [pending EXCEPT ![i] = <<>>]
  /\ connUp' = [connUp EXCEPT ![i] = FALSE]
  /\ UNCHANGED failedAt

\* mysql.connector.connect(**DB_CONFIG)
Connect(i) ==
  /\ pc[i] = "connect"
  /\ \E ok \in BOOLEAN :
       IF ok
         THEN /\ pc' = [pc EXCEPT ![i] = "clear"]
              /\ connUp' = [connUp EXCEPT ![i] = TRUE]
              /\ UNCHANGED <<failedAt, pending>>
         ELSE Fail(i, "connect")
  /\ UNCHANGED <<searchVars, cacheVars, pricingVars, reload, products, xmlSource, csvSource, scripts, feed, pos, inserted, skipped,
                 summary, prevRows, attempt, sleeps, resp, cacheFile, local_zip,
                 stock_map>>

\* The store becomes unreachable for importer i: its connection is lost and
\* stays lost, the server rolls the open transaction back.
ConnLost(i) ==
  /\ pc[i] \in {"clear", "loop", "commit"}
  /\ connUp[i]
  /\ connUp' = [connUp EXCEPT ![i] = FALSE]
  /\ pending' = [pending EXCEPT ![i] = <<>>]
  /\ UNCHANGED <<searchVars, cacheVars, pricingVars, reload, products, xmlSource, csvSource, scripts, pc, feed, pos, inserted, skipped,
                 failedAt, summary, prevRows, attempt, sleeps, resp, cacheFile,
                 local_zip, stock_map>>

\* except Exception: skipped += 1; continue   (the record loops' handler)
\* (mutants: the handler raises again; the handler forgets to count)
RethrowOnRecordError(count) == [skipped |-> count, abort |-> TRUE]
UncountedRecordError(count) == [skipped |-> count, abort |-> FALSE]
OnRecordError(count) == [skipped |-> count + 1, abort |-> FALSE]

\* (mutant: a commit after every insert)
CommitEveryInsert(count) == TRUE

\* if inserted_count % BATCH_SIZE == 0: conn.commit()
BatchDue(count) == count % BATCH_SIZE = 0

\* One iteration of a record loop.  outcome is "skip" (an explicit
\* skipped += 1; continue), "raise" (an exception before or in execute) or
\* "execute" (the INSERT went through); commitOk is whether a due batch
\* commit goes through.
LoopStep(i, outcome, vals, commitOk) ==
  LET executes == outcome = "execute"
      ins == IF executes THEN inserted[i] + 1 ELSE inserted[i]
      batch == executes /\ BatchDue(ins)
      raised == outcome = "raise" \/ (batch /\ ~commitOk)
      err == OnRecordError(skipped[i])
      ops == IF executes THEN Append(pending[i], InsertOp(vals)) ELSE pending[i]
      last == pos[i] = Len(feed[i])
  IN  /\ inserted' = [inserted EXCEPT ![i] = ins]
      /\ skipped' = [skipped EXCEPT ![i] =
                       IF raised THEN err.skipped
                       ELSE IF outcome = "skip" THEN @ + 1 ELSE @]
      /\ pos' = [pos EXCEPT ![i] = @ + 1]
      /\ products' = IF batch /\ commitOk THEN Apply(products, ops) ELSE products
      /\ IF raised /\ err.abort
           THEN Fail(i, "loop")
           ELSE /\ pc' = [pc EXCEPT ![i] = IF last THEN "commit" ELSE "loop"]
                /\ pending' = [pending EXCEPT ![i] = IF batch THEN <<>> ELSE ops]
                /\ connUp' = [connUp EXCEPT ![i] = IF batch /\ ~commitOk THEN FALSE ELSE @]
                /\ UNCHANGED failedAt
      /\ UNCHANGED <<searchVars, cacheVars, pricingVars, reload, xmlSource, csvSource, scripts, feed, summary, prevRows, attempt, sleeps,
                     resp, cacheFile, local_zip, stock_map>>

\* conn.commit() after the loop, close, and the final log line.
FinalCommit(i) ==
  /\ pc[i] = "commit"
  /\ IF connUp[i]
       THEN /\ products' = Apply(products, pending[i])
            /\ Finish(i, [inserted |-> inserted[i], skipped |-> skipped[i]])
       ELSE /\ Fail(i, "commit")
            /\ UNCHANGED <<products, summary>>
  /\ UNCHANGED <<searchVars, cacheVars, pricingVars, reload, xmlSource, csvSource, scripts, feed, pos, inserted, skipped, prevRows,
                 attempt, sleeps, resp, cacheFile, local_zip, stock_map>>


\* ----------------------------------------------------------- XML importer
XmlStart ==
  /\ StartRun("xml")
  /\ attempt' = 1
  /\ sleeps' = 0
  /\ resp' = <<>>
  /\ UNCHANGED <<cacheFile, local_zip, stock_map>>

\* (mutant: off by one, a fourth attempt)
RetryOnceMore(a) == a <= retries

\* if attempt < retries: time.sleep(delay)  else: raise
RetryAfterFailure(a) == a < retries

\* Lines 97-109: one pass of the fetch loop.  ok: the GET returned a 2xx
\* answer (break); otherwise requests raised a RequestException.
XmlAttempt ==
  /\ pc["xml"] = "fetch"
  /\ \E ok \in BOOLEAN :
       IF ok
         THEN /\ resp' = xmlSource
              /\ pc' = [pc EXCEPT !["xml"] = "parse"]
              /\ UNCHANGED <<attempt, sleeps, failedAt, pending, connUp>>
         ELSE IF RetryAfterFailure(attempt)
           THEN /\ sleeps' = sleeps + 1
                /\ attempt' = attempt + 1
                /\ UNCHANGED <<pc, resp, failedAt, pending, connUp>>
           ELSE /\ Fail("xml", "fetch")
                /\ UNCHANGED <<attempt, sleeps, resp>>
  /\ UNCHANGED <<searchVars, cacheVars, pricingVars, reload, products, xmlSource, csvSource, scripts, feed, pos, inserted, skipped,
                 summary, prevRows, cacheFile, local_zip, stock_map>>

\* Lines 116-123: xmltodict.parse and json.dump to LOCAL_CACHE_FILE; any
\* exception is logged and raised again.
XmlParse ==
  /\ pc["xml"] = "parse"
  /\ \E ok \in BOOLEAN :
       IF ok
         THEN /\ cacheFile' = [exists |-> TRUE, data |-> XmlToDict(resp)]
              /\ pc' = [pc EXCEPT !["xml"] = "load"]
              /\ UNCHANGED <<failedAt, pending, connUp>>
         ELSE /\ Fail("xml", "parse")
              /\ UNCHANGED cacheFile
  /\ UNCHANGED <<searchVars, cacheVars, pricingVars, reload, products, xmlSource, csvSource, scripts, feed, pos, inserted, skipped,
                 summary, prevRows, attempt, sleeps, resp, local_zip, stock_map>>

\* Lines 153-170: process_data_to_db up to the product list.  A missing
\* file or an empty product path returns; an unreadable file raises.
XmlLoad ==
  /\ pc["xml"] = "load"
  /\ \E readable \in BOOLEAN :
       LET products_list == ProductsList(cacheFile.data)
       IN  IF ~cacheFile.exists
             THEN Finish("xml", NoSummary) /\ UNCHANGED feed
           ELSE IF ~readable
             THEN Fail("xml", "load") /\ UNCHANGED <<feed, summary>>
           ELSE IF products_list = <<>>
             THEN Finish("xml", NoSummary) /\ UNCHANGED feed
           ELSE /\ feed' = [feed EXCEPT !["xml"] = products_list]
                /\ pc' = [pc EXCEPT !["xml"] = "connect"]
                /\ UNCHANGED <<failedAt, pending, connUp, summary>>
  /\ UNCHANGED <<searchVars, cacheVars, pricingVars, reload, products, xmlSource, csvSource, scripts, pos, inserted, skipped, prevRows,
                 attempt, sleeps, resp, cacheFile, local_zip, stock_map>>

\* Line 179: the DELETE joins the open transaction (no commit here).
XmlClear ==
  /\ pc["xml"] = "clear"
  /\ IF connUp["xml"]
       THEN /\ pending' = [pending EXCEPT !["xml"] = Append(@, DeleteOp(SUPPLIER_ID_XML))]
            /\ pc' = [pc EXCEPT !["xml"] = "loop"]
            /\ UNCHANGED <<failedAt, connUp>>
       ELSE Fail("xml", "clear")
  /\ UNCHANGED <<searchVars, cacheVars, pricingVars, reload, products, xmlSource, csvSource, scripts, feed, pos, inserted, skipped,
                 summary, prevRows, attempt, sleeps, resp, cacheFile, local_zip,
                 stock_map>>

\* Lines 187-275: one product of the loop.
XmlRecord ==
  /\ pc["xml"] = "loop"
  /\ LET row == feed["xml"][pos["xml"]]
         n == XmlNormalize(row)
         outcome == IF n.raised \/ ~connUp["xml"] \/ row.storeRejects
                      THEN "raise" ELSE "execute"
     IN  \E commitOk \in BOOLEAN : LoopStep("xml", outcome, n.vals, commitOk)

\* ----------------------------------------------------------- CSV importer
CsvStart ==
  /\ StartRun("csv")
  /\ local_zip' = "none"
  /\ stock_map' = NoStock
  /\ UNCHANGED <<attempt, sleeps, resp, cacheFile>>

\* (mutant: a failed download is logged and the pipeline goes on with the
\* files of an earlier run)
CsvDownloadGoesOn ==
  /\ pc["csv"] = "fetch"
  /\ \E outcome \in {"ok", "noconfig", "error"} :
       /\ local_zip' = IF outcome = "ok" THEN "zip" ELSE "none"
       /\ feed' = [feed EXCEPT !["csv"] = csvSource.lines]
       /\ pc' = [pc EXCEPT !["csv"] = IF outcome = "ok" THEN "parse" ELSE "connect"]
  /\ UNCHANGED <<searchVars, cacheVars, pricingVars, reload, products, xmlSource, csvSource, scripts, pos, inserted, skipped,
                 pending, connUp, failedAt, summary, prevRows, attempt, sleeps, resp,
                 cacheFile, stock_map>>

\* Lines 81-112 and 136-140: the download.  "noconfig": SFTP_HOST is unset
\* and the function returns (None, None); "error": the transfer raised, the
\* pipeline logs "Aborting" and returns.
CsvDownload ==
  /\ pc["csv"] = "fetch"
  /\ \E outcome \in {"ok", "noconfig", "error"} :
       IF outcome = "error"
         THEN Fail("csv", "fetch") /\ UNCHANGED local_zip
         ELSE /\ local_zip' = IF outcome = "ok" THEN "zip" ELSE "none"
              /\ pc' = [pc EXCEPT !["csv"] = "parse"]
              /\ UNCHANGED <<failedAt, pending, connUp>>
  /\ UNCHANGED <<searchVars, cacheVars, pricingVars, reload, products, xmlSource, csvSource, scripts, feed, pos, inserted, skipped,
                 summary, prevRows, attempt, sleeps, resp, cacheFile, stock_map>>

\* Lines 142-162: unzip, read both files, build stock_map.  Nothing here is
\* inside a try: a missing archive or a bad file ends the script.
CsvExtract ==
  /\ pc["csv"] = "parse"
  /\ \E ok \in BOOLEAN :
       IF local_zip = "zip" /\ ok
         THEN /\ feed' = [feed EXCEPT !["csv"] = csvSource.lines]
              /\ stock_map' = csvSource.stock
              /\ pc' = [pc EXCEPT !["csv"] = "connect"]
              /\ UNCHANGED <<failedAt, pending, connUp>>
         ELSE /\ Fail("csv", "parse")
              /\ UNCHANGED <<feed, stock_map>>
  /\ UNCHANGED <<searchVars, cacheVars, pricingVars, reload, products, xmlSource, csvSource, scripts, pos, inserted, skipped, summary,
                 prevRows, attempt, sleeps, resp, cacheFile, local_zip>>

\* Lines 169-170: DELETE and commit at once.
CsvClear ==
  /\ pc["csv"] = "clear"
  /\ IF connUp["csv"]
       THEN /\ products' = Apply(products, Append(pending["csv"], DeleteOp(SUPPLIER_ID_CSV)))
            /\ pending' = [pending EXCEPT !["csv"] = <<>>]
            /\ pc' = [pc EXCEPT !["csv"] = IF feed["csv"] = <<>> THEN "commit" ELSE "loop"]
            /\ UNCHANGED <<failedAt, connUp>>
       ELSE Fail("csv", "clear") /\ UNCHANGED products
  /\ UNCHANGED <<searchVars, cacheVars, pricingVars, reload, xmlSource, csvSource, scripts, feed, pos, inserted, skipped, summary,
                 prevRows, attempt, sleeps, resp, cacheFile, local_zip, stock_map>>

\* Lines 177-257: one line of the price list.
CsvRecord ==
  /\ pc["csv"] = "loop"
  /\ LET line == feed["csv"][pos["csv"]]
         n == CsvNormalize(line, stock_map)
         outcome == IF n.kind \in {"short", "noid"} THEN "skip"
                    ELSE IF n.kind = "raised" \/ ~connUp["csv"] \/ line.storeRejects
                      THEN "raise" ELSE "execute"
     IN  \E commitOk \in BOOLEAN : LoopStep("csv", outcome, n.vals, commitOk)

\* ------------------------------------------------------------ search API
UpperCase == <<"A", "B", "C", "H", "N", "S", "U">>
LowerCase == <<"a", "b", "c", "h", "n", "s", "u">>
\* str.lower() / LOWER() of one character.
LowerChar(c) ==
  IF \E k \in DOMAIN UpperCase : UpperCase[k] = c
    THEN LowerCase[CHOOSE k \in DOMAIN UpperCase : UpperCase[k] = c]
    ELSE c
Lower(text) == [k \in DOMAIN text |-> LowerChar(text[k])]

\* The characters [a-z0-9äöå.-] that occur in the model's texts.
AllowedChars == Range(LowerCase) \cup {"e", "l", "m", "0", "1", ".", "-"}

\* normalize_string: lower case, every run of other characters becomes one
\* space, white space is collapsed and stripped.
RECURSIVE CollapseSpaces(_)
CollapseSpaces(text) ==
  IF Len(text) < 2 THEN text
  ELSE IF text[1] = " " /\ text[2] = " " THEN CollapseSpaces(Tail(text))
  ELSE <<text[1]>> \o CollapseSpaces(Tail(text))

RECURSIVE Strip(_)
Strip(text) ==
  IF text = <<>> THEN text
  ELSE IF Head(text) = " " THEN Strip(Tail(text))
  ELSE IF text[Len(text)] = " " THEN Strip(SubSeq(text, 1, Len(text) - 1))
  ELSE text

normalize_string(text) ==
  LET lowered == Lower(text)
      replaced == [k \in DOMAIN lowered |->
                     IF lowered[k] \in AllowedChars THEN lowered[k] ELSE " "]
  IN  Strip(CollapseSpaces(replaced))

\* str.split(): the words between spaces.
RECURSIVE SplitWords(_, _)
SplitWords(text, word) ==
  IF text = <<>> THEN (IF word = <<>> THEN <<>> ELSE <<word>>)
  ELSE IF Head(text) = " "
    THEN (IF word = <<>> THEN <<>> ELSE <<word>>) \o SplitWords(Tail(text), <<>>)
  ELSE SplitWords(Tail(text), Append(word, Head(text)))

\* split_search_terms: the tokens of at least 2 characters.
split_search_terms(raw_query) ==
  SelectSeq(SplitWords(normalize_string(raw_query), <<>>), LAMBDA t : Len(t) >= 2)

\* SQL's  text LIKE pattern  (% any run of characters, _ any one character).
RECURSIVE Like(_, _)
Like(text, pattern) ==
  IF pattern = <<>> THEN text = <<>>
  ELSE IF Head(pattern) = "%"
    THEN Like(text, Tail(pattern)) \/ (text # <<>> /\ Like(Tail(text), pattern))
  ELSE /\ text # <<>>
       /\ (Head(pattern) = "_" \/ Head(pattern) = Head(text))
       /\ Like(Tail(text), Tail(pattern))

\* where_conditions of the request: "stock > 0" when in_stock.
WhereHolds(row, in_stock) == in_stock => row.stock > 0

\* (mutant: the token conditions joined with OR)
StrictMatchAnyToken(row, in_stock, tokens) ==
  /\ WhereHolds(row, in_stock)
  /\ \E k \in DOMAIN tokens :
       LET wildcard_token == <<"%">> \o tokens[k] \o <<"%">>
       IN  Like(Lower(row.name), wildcard_token) \/ Like(Lower(row.brand), wildcard_token)

\* build_strict_search_query: the WHERE clause, evaluated on one row.
StrictMatch(row, in_stock, tokens) ==
  /\ WhereHolds(row, in_stock)
  /\ \A k \in DOMAIN tokens :
       LET wildcard_token == <<"%">> \o tokens[k] \o <<"%">>
       IN  Like(Lower(row.name), wildcard_token) \/ Like(Lower(row.brand), wildcard_token)

IsPrefix(p, text) == Len(p) <= Len(text) /\ SubSeq(text, 1, Len(p)) = p

\* The words the full-text index holds for a text (split at the characters
\* that are no letters or digits).
IndexWords(text) ==
  LET lowered == Lower(text)
      spaced == [k \in DOMAIN lowered |->
                   IF lowered[k] \in AllowedChars \ {".", "-"} THEN lowered[k] ELSE " "]
  IN  Range(SplitWords(spaced, <<>>))

\* build_fuzzy_search_query: MATCH(name, brand) AGAINST ('+t1* +t2*' IN
\* BOOLEAN MODE): every term is the prefix of an indexed word.
FuzzyMatch(row, in_stock, terms) ==
  /\ WhereHolds(row, in_stock)
  /\ \A k \in DOMAIN terms :
       \E w \in IndexWords(row.name) \cup IndexWords(row.brand) : IsPrefix(terms[k], w)

\* The rows the statement selects, in table order.
Matching(table, strict_mode, in_stock, tokens) ==
  SelectSeq(table, LAMBDA r : IF strict_mode THEN StrictMatch(r, in_stock, tokens)
                              ELSE FuzzyMatch(r, in_stock, tokens))

\* ORDER BY price ASC: every arrangement of the rows with ascending prices
\* (rows of equal price come in any order).
Orderings(rows) ==
  LET n == Len(rows)
      perms == {f \in [1..n -> 1..n] : \A a, b \in 1..n : a # b => f[a] # f[b]}
  IN  {[k \in 1..n |-> rows[f[k]]] :
         f \in {g \in perms : \A a, b \in 1..n : a < b => rows[g[a]].price <= rows[g[b]].price}}

\* LIMIT %s OFFSET %s
LimitOffset(rows, lim, off) ==
  SubSeq(rows, off + 1, IF off + lim < Len(rows) THEN off + lim ELSE Len(rows))

\* (mutant: the extra row is not asked for)
FetchExactlyLimit(limit) == limit

\* fetch_limit = limit + 1
FetchLimit(limit) == limit + 1

\* provider_map.get(supplier_id, "Unknown Supplier")
Provider(sid) ==
  IF sid = 1 THEN "Global Wholesale Ltd"
  ELSE IF sid = 2 THEN "Nordic Parts Oy" ELSE "Unknown Supplier"

\* Lines 275-285: ProductItem built from a row.
ProductItem(r) ==
  [provider |-> Provider(r.supplier_id),
   name |-> IF r.name = <<>> THEN <<"N", "/", "A">> ELSE r.name,
   brand |-> r.brand, price |-> r.price, price_inc_vat |-> r.price_inc,
   stock |-> r.stock, link |-> r.link, ean |-> r.ean]

NoReq == [q |-> <<>>, in_stock |-> FALSE, strict_mode |-> FALSE, limit |-> 0, offset |-> 0]
NoStatement == [mode |-> "none", fetch_limit |-> 0, offset |-> 0]
NoResponse == [status |-> 0, query |-> <<>>, products |-> <<>>, has_more |-> FALSE,
               limit |-> 0, offset |-> 0]
ErrorResponse(code) == [NoResponse EXCEPT !.status = code]

SearchIdle ==
  /\ searchPc = "idle"
  /\ req = NoReq
  /\ executed = NoStatement
  /\ response = NoResponse

\* The query texts: up to MaxPieces pieces, at least 2 characters long
\* (Query(..., min_length=2) rejects shorter ones before the handler).
QueryPieces == {<<"U", "s">>, <<"s", "B">>, <<" ">>, <<"!">>}
RECURSIVE Concat(_)
Concat(ps) == IF ps = <<>> THEN <<>> ELSE Head(ps) \o Concat(Tail(ps))
Queries == {q \in {Concat(ps) : ps \in SeqsUpTo(QueryPieces, MaxPieces)} : Len(q) >= 2}

\* Lines 219-235: a request arrives; raw_query = q.strip(); then
\* get_db_connection(), outside the try: its exception is the framework's
\* plain 500.
SearchReceive ==
  /\ searchPc = "idle"
  /\ \E q \in Queries, in_stock \in BOOLEAN, strict_mode \in BOOLEAN,
        limit \in 1..MaxLimit, offset \in 0..MaxOffset, connected \in BOOLEAN :
       /\ req' = [q |-> q, in_stock |-> in_stock, strict_mode |-> strict_mode,
                  limit |-> limit, offset |-> offset]
       /\ IF connected
            THEN searchPc' = "connected" /\ response' = NoResponse
            ELSE searchPc' = "responded" /\ response' = ErrorResponse(500)
  /\ executed' = NoStatement
  /\ UNCHANGED <<importVars, cacheVars, pricingVars, reload>>

\* except Exception: raise HTTPException(500): what the handler's except
\* makes of an exception raised in the try block, HTTPException included.
Caught(code) == 500

\* Lines 237-300: the try block of search_products.
SearchQuery ==
  /\ searchPc = "connected"
  /\ LET raw_query == Strip(req.q)
         tokens == split_search_terms(raw_query)
         fetch_limit == FetchLimit(req.limit)
         matching == Matching(products, req.strict_mode, req.in_stock, tokens)
     IN  IF tokens = <<>>
           THEN /\ response' = ErrorResponse(Caught(400))
                /\ executed' = NoStatement
           ELSE \E ok \in BOOLEAN, sorted \in Orderings(matching) :
                  LET rows == LimitOffset(sorted, fetch_limit, req.offset)
                      has_more == Len(rows) > req.limit
                      shown == IF has_more THEN SubSeq(rows, 1, req.limit) ELSE rows
                  IN  /\ executed' = [mode |-> IF req.strict_mode THEN "strict" ELSE "fuzzy",
                                      fetch_limit |-> fetch_limit, offset |-> req.offset]
                      /\ response' =
                           IF ok
                             THEN [status |-> 200, query |-> raw_query,
                                   products |-> [k \in DOMAIN shown |-> ProductItem(shown[k])],
                                   has_more |-> has_more, limit |-> req.limit,
                                   offset |-> req.offset]
                             ELSE ErrorResponse(Caught(500))
  /\ searchPc' = "responded"
  /\ UNCHANGED <<req, importVars, cacheVars, pricingVars, reload>>

\* The response is delivered.
SearchReturn ==
  /\ searchPc = "responded"
  /\ searchPc' = "idle"
  /\ req' = NoReq
  /\ executed' = NoStatement
  /\ response' = NoResponse
  /\ UNCHANGED <<importVars, cacheVars, pricingVars, reload>>

\* ------------------------------------------------- cached search (app.py)
\* search_cache = TTLCache(maxsize=1_000, ttl=60)
ttl == 60
\* The clock moves in ticks of half a ttl; a behaviour sees MaxTicks of them.
MaxTicks == 4
TickLen == ttl \div 2

\* An optional query parameter: None or a text.
None == [none |-> TRUE, text |-> <<>>]
Some(text) == [none |-> FALSE, text |-> text]
TxtNone == <<"N", "o", "n", "e">>
\* f"{x}" of an optional parameter: the text, "None" for None.
Format(x) == IF x.none THEN TxtNone ELSE x.text
\* if brand: / if category: the filter is applied for a non-empty text.
Active(x) == ~x.none /\ x.text # <<>>

\* cache_key: f"q={query}|brand={brand}|cat={category}"
cache_key(query, brand, category) ==
  <<"q", "=">> \o query \o <<"|", "b", "r", "a", "n", "d", "=">> \o Format(brand)
    \o <<"|", "c", "a", "t", "=">> \o Format(category)

\* A row of app.py's products table (class Product).
DemoProduct(id, sku, name, brand, category, price) ==
  [id |-> id, sku |-> sku, name |-> name, brand |-> brand, category |-> category,
   price |-> price]

DemoCatalog ==
  { DemoProduct(1, <<"u", "s", "-", "1">>, TxtUsbHub, TxtAcme, <<"h", "u", "b", "s">>, 1255),
    DemoProduct(2, <<"c", "-", "2">>, <<"c", "a", "b", "l", "e", " ", "u", "s">>, TxtNone, <<>>, 314),
    DemoProduct(3, <<"U", "S", "3">>, TxtCable, TxtAcme, <<>>, 250) }

\* column.ilike(pattern): LIKE without regard to letter case.
ILike(text, pattern) == Like(Lower(text), Lower(pattern))

\* The order of two names under ORDER BY name ASC, by the characters of the
\* catalog's names (no two rows of the catalog share a name).
NameChars == <<" ", "A", "a", "b", "c", "e", "h", "l", "s", "U", "u">>
CharRank(c) == CHOOSE k \in DOMAIN NameChars : NameChars[k] = c
RECURSIVE NameBefore(_, _)
NameBefore(a, b) ==
  IF b = <<>> THEN FALSE
  ELSE IF a = <<>> THEN TRUE
  ELSE IF Head(a) = Head(b) THEN NameBefore(Tail(a), Tail(b))
  ELSE CharRank(Head(a)) < CharRank(Head(b))

RECURSIVE OrderByName(_)
OrderByName(rows) ==
  IF rows = {} THEN <<>>
  ELSE LET first == CHOOSE p \in rows : \A q \in rows \ {p} : NameBefore(p.name, q.name)
       IN  <<first>> \o OrderByName(rows \ {first})

\* Lines 177-198: the statement built for the parameters and its result,
\* as a list of ProductOut.
QueryStore(query, brand, category, limit) ==
  LET like_pattern == <<"%">> \o Lower(query) \o <<"%">>
      rows == {p \in DemoCatalog :
                 /\ ILike(p.name, like_pattern) \/ ILike(p.sku, like_pattern)
                 /\ Active(brand) => p.brand = brand.text
                 /\ Active(category) => p.category = category.text}
      ordered == OrderByName(rows)
  IN  SubSeq(ordered, 1, IF limit < Len(ordered) THEN limit ELSE Len(ordered))

\* An entry of the cache: the value under a key, when it expires; computed
\* and by record when and for which request the value was computed.
CacheEntry(key, value, expires, computed, by) ==
  [key |-> key, value |-> value, expires |-> expires, computed |-> computed, by |-> by]

\* (mutant: entries never expire)
NeverExpires(entry, time) == TRUE

\* TTLCache: timer() < link.expires
Unexpired(entry, time) == time < entry.expires

\* key in search_cache  (TTLCache.__contains__)
CacheContains(cache, key, time) ==
  \E e \in cache : e.key = key /\ Unexpired(e, time)

\* The entry search_cache[key] reads.
CacheItem(cache, key) == CHOOSE e \in cache : e.key = key

\* search_cache[key] = value  (TTLCache.__setitem__: expired entries are
\* dropped, the key's entry is replaced and expires ttl from now).  The
\* model holds far fewer than maxsize keys.
CacheSetItem(cache, key, value, time, by) ==
  {e \in cache : Unexpired(e, time) /\ e.key # key}
    \cup {CacheEntry(key, value, time + ttl, time, by)}

CacheRequest(query, brand, category, limit) ==
  [query |-> query, brand |-> brand, category |-> category, limit |-> limit]

\* The requests of a behaviour: queries that differ in letter case and in
\* surrounding blanks; filters that are None, empty and the text "None";
\* different limits and brands.
TrafficMixes ==
  { { CacheRequest(<<"u", "s">>, None, None, 2),
      CacheRequest(<<"U", "s">>, None, None, 2),
      CacheRequest(<<"u", "s", " ">>, None, None, 2) },
    { CacheRequest(<<"u", "s">>, None, None, 2),
      CacheRequest(<<"u", "s">>, Some(TxtNone), None, 2),
      CacheRequest(<<"u", "s">>, None, Some(<<>>), 2) },
    { CacheRequest(<<"u", "s">>, None, None, 1),
      CacheRequest(<<"u", "s">>, None, None, 2),
      CacheRequest(<<"u", "s">>, Some(TxtAcme), None, 2) } }

NoCacheReq == CacheRequest(<<>>, None, None, 0)
NoCacheResp == [status |-> 0, result |-> <<>>, cached |-> FALSE, computed |-> 0]

CacheIdle ==
  /\ search_cache = {}
  /\ now = 0
  /\ traffic = {}
  /\ cachePc = "idle"
  /\ cacheReq = NoCacheReq
  /\ cacheResp = NoCacheResp
  /\ storeQueries = 0

\* The key of the request in progress (line 173).
ReqKey == cache_key(cacheReq.query, cacheReq.brand, cacheReq.category)

\* A request arrives.
CacheReceive ==
  /\ cachePc = "idle"
  /\ \E r \in traffic : cacheReq' = r
  /\ cachePc' = "check"
  /\ cacheResp' = NoCacheResp
  /\ storeQueries' = 0
  /\ UNCHANGED <<importVars, searchVars, pricingVars, reload, search_cache, now, traffic>>

\* Line 174: if key in search_cache
CacheCheck ==
  /\ cachePc = "check"
  /\ cachePc' = IF CacheContains(search_cache, ReqKey, now) THEN "hit" ELSE "miss"
  /\ UNCHANGED <<importVars, searchVars, pricingVars, reload, search_cache, now, traffic, cacheReq, cacheResp,
                 storeQueries>>

\* Line 175: return search_cache[key].  __getitem__ reads the timer again
\* and raises KeyError for an entry that has expired since the check.
CacheRead ==
  /\ cachePc = "hit"
  /\ cacheResp' =
       IF CacheContains(search_cache, ReqKey, now)
         THEN [status |-> 200, result |-> CacheItem(search_cache, ReqKey).value,
               cached |-> TRUE, computed |-> CacheItem(search_cache, ReqKey).computed]
         ELSE [NoCacheResp EXCEPT !.status = 500]
  /\ cachePc' = "responded"
  /\ UNCHANGED <<importVars, searchVars, pricingVars, reload, search_cache, now, traffic, cacheReq, storeQueries>>

\* Lines 177-203: the statement is executed, its result stored under the
\* key and returned; when the store fails nothing is stored.
CacheMiss ==
  /\ cachePc = "miss"
  /\ \E ok \in BOOLEAN :
       LET result == QueryStore(cacheReq.query, cacheReq.brand, cacheReq.category,
                                cacheReq.limit)
       IN  IF ok
             THEN /\ search_cache' = CacheSetItem(search_cache, ReqKey, result, now, cacheReq)
                  /\ cacheResp' = [status |-> 200, result |-> result, cached |-> FALSE,
                                   computed |-> now]
             ELSE /\ search_cache' = search_cache
                  /\ cacheResp' = [NoCacheResp EXCEPT !.status = 500]
  /\ storeQueries' = storeQueries + 1
  /\ cachePc' = "responded"
  /\ UNCHANGED <<importVars, searchVars, pricingVars, reload, now, traffic, cacheReq>>

\* The response is delivered.
CacheReturn ==
  /\ cachePc = "responded"
  /\ cachePc' = "idle"
  /\ cacheReq' = NoCacheReq
  /\ cacheResp' = NoCacheResp
  /\ storeQueries' = 0
  /\ UNCHANGED <<importVars, searchVars, pricingVars, reload, search_cache, now, traffic>>

\* Time passes.
Tick ==
  /\ now < MaxTicks * TickLen
  /\ now' = now + TickLen
  /\ UNCHANGED <<importVars, searchVars, pricingVars, reload, search_cache, traffic, cachePc, cacheReq,
                 cacheResp, storeQueries>>

CacheInit ==
  /\ products = <<>>
  /\ scripts = {}
  /\ xmlSource = <<>>
  /\ csvSource = NoCsv
  /\ ImportersIdle
  /\ SearchIdle
  /\ PricingIdle
  /\ ReloadIdle
  /\ search_cache = {}
  /\ now = 0
  /\ traffic \in TrafficMixes
  /\ cachePc = "idle"
  /\ cacheReq = NoCacheReq
  /\ cacheResp = NoCacheResp
  /\ storeQueries = 0

CacheNext ==
  \/ CacheReceive
  \/ CacheCheck
  \/ CacheRead
  \/ CacheMiss
  \/ CacheReturn
  \/ Tick

CacheSpec == CacheInit /\ [][CacheNext]_vars

\* A table a search can meet: rows of both suppliers, two of them of the
\* same price, one without stock, one without a name.
SearchTable ==
  << Row(1, "e2", <<"h", "u", "b">>, <<"U", "s", "b">>, 250, 314, 0, "#"),
     Row(2, NULL, <<>>, <<"H", "U", "S", "B">>, 250, 314, 2, "p1"),
     Row(1, "e1", TxtUsbHub, TxtAcme, 1000, 1255, 5, "#"),
     Row(2, "e1", TxtCable, <<"U", "s">>, 199, 250, 1, "p2") >>

\* The search behaviours: the table is a prefix of SearchTable, no importer
\* is running.
SearchInit ==
  /\ products \in {SubSeq(SearchTable, 1, n) : n \in 0..Len(SearchTable)}
  /\ scripts = {}
  /\ xmlSource = <<>>
  /\ csvSource = NoCsv
  /\ ImportersIdle
  /\ SearchIdle
  /\ CacheIdle
  /\ PricingIdle
  /\ ReloadIdle

SearchNext == SearchReceive \/ SearchQuery \/ SearchReturn

SearchSpec == SearchInit /\ [][SearchNext]_vars

\* ---------------------------------------------------------- specification
\* A behaviour of Spec follows the runs of one importer script over one
\* source; the table starts empty or with rows left by earlier feeds.
Init ==
  /\ products \in InitStores
  /\ \/ scripts = {"xml"} /\ xmlSource \in XmlSources /\ csvSource = NoCsv
     \/ scripts = {"csv"} /\ xmlSource = <<>> /\ csvSource \in CsvSources
  /\ ImportersIdle
  /\ SearchIdle
  /\ CacheIdle
  /\ PricingIdle
  /\ ReloadIdle

Next ==
  \/ XmlStart
  \/ XmlAttempt
  \/ XmlParse
  \/ XmlLoad
  \/ Connect("xml")
  \/ XmlClear
  \/ XmlRecord
  \/ FinalCommit("xml")
  \/ CsvStart
  \/ CsvDownload
  \/ CsvExtract
  \/ Connect("csv")
  \/ CsvClear
  \/ CsvRecord
  \/ FinalCommit("csv")
  \/ \E i \in Importers : ConnLost(i)

Spec == Init /\ [][Next]_vars


\* Both importer scripts run side by side, each over a feed that holds the
\* EAN e1 twice; the table starts empty or with rows of both suppliers.
IsolationXmlSource ==
  << XmlProduct(FALSE, "e1", "i1", Num(1000), Num(57), TxtUsbHub, <<>>, TxtAcme, FALSE),
     XmlProduct(FALSE, "e1", "", Num(250), Absent, <<>>, TxtCable, TxtAcme, FALSE) >>

IsolationCsvSource ==
  [lines |-> << CsvLine(7, TxtAcme, "p1", TxtUsbHub, Num(57), Num(1000), "e1", FALSE),
                CsvLine(7, TxtAcme, "p2", TxtCable, Absent, Num(250), "e1", FALSE) >>,
   stock |-> [p \in ProductIds |-> IF p = "p1" THEN Num(403) ELSE Absent]]

IsolationInit ==
  /\ products \in InitStores
  /\ scripts = Importers
  /\ xmlSource = IsolationXmlSource
  /\ csvSource = IsolationCsvSource
  /\ ImportersIdle
  /\ SearchIdle
  /\ CacheIdle
  /\ PricingIdle
  /\ ReloadIdle

IsolationSpec == IsolationInit /\ [][Next]_vars

\* ------------------------------------------------------- POST /reload-data
TxtBearer == <<"B", "e", "a", "r", "e", "r">>
TxtToken1 == <<"t", "1">>
TxtToken2 == <<"t", "2">>

\* str.split(" "): the pieces between single spaces, empty ones included.
RECURSIVE SplitOnSpace(_, _)
SplitOnSpace(text, piece) ==
  IF text = <<>> THEN <<piece>>
  ELSE IF Head(text) = " " THEN <<piece>> \o SplitOnSpace(Tail(text), <<>>)
  ELSE SplitOnSpace(Tail(text), Append(piece, Head(text)))

\* Lines 315-319: the negation of the condition that raises the 401.
Authorized(given, authorization, expected_token) ==
  /\ given
  /\ authorization # <<>>
  /\ IsPrefix(TxtBearer \o <<" ">>, authorization)
  /\ SplitOnSpace(authorization, <<>>)[2] = expected_token

\* get_reload_token(): the stripped RELOAD_TOKEN of the .env file, "" when
\* it is not set.
ReloadTokens == {<<>>, TxtToken1, TxtToken2}

\* Authorization header values as the handler receives them (the server
\* strips blanks around a header value).
HeaderValues ==
  {h \in {scheme \o sep \o cred \o rest :
            scheme \in {TxtBearer, <<"b", "e", "a", "r", "e", "r">>, <<"B", "a", "s", "i", "c">>},
            sep \in {<<>>, <<" ">>, <<" ", " ">>},
            cred \in {<<>>, TxtToken1, TxtToken2},
            rest \in {<<>>, <<" ", "x">>}} :
     h[Len(h)] # " "}

\* The .env file is edited: the token is read from disk on every request.
TokenChanged ==
  /\ reload.pc = "idle"
  /\ \E t \in ReloadTokens \ {reload.token} : reload' = [reload EXCEPT !.token = t]
  /\ UNCHANGED <<importVars, searchVars, cacheVars, pricingVars>>

\* Lines 306-360: one request.  Past the check the scripts are run one after
\* the other (their runs are the importers above); ran is whether
\* subprocess.run went through, else the handler answers 500.
ReloadData ==
  /\ reload.pc = "idle"
  /\ \E given \in BOOLEAN, h \in HeaderValues \cup {<<>>}, ran \in BOOLEAN :
       /\ ~given => h = <<>> /\ ran
       /\ LET authorized == Authorized(given, h, reload.token)
          IN  /\ ~authorized => ran
              /\ reload' = [reload EXCEPT !.pc = "responded", !.header = h, !.given = given,
                                          !.launched = authorized,
                                          !.status = IF ~authorized THEN 401
                                                     ELSE IF ran THEN 200 ELSE 500]
  /\ UNCHANGED <<importVars, searchVars, cacheVars, pricingVars>>

\* The response is delivered.
ReloadReturn ==
  /\ reload.pc = "responded"
  /\ reload' = [NoReload EXCEPT !.token = reload.token]
  /\ UNCHANGED <<importVars, searchVars, cacheVars, pricingVars>>

ReloadInit ==
  /\ products = <<>>
  /\ scripts = {}
  /\ xmlSource = <<>>
  /\ csvSource = NoCsv
  /\ ImportersIdle
  /\ SearchIdle
  /\ CacheIdle
  /\ pricingRate = PricingEngine_VAT_RATE
  /\ quote = NoQuote
  /\ reload \in {[NoReload EXCEPT !.token = t] : t \in ReloadTokens}

ReloadNext ==
  \/ TokenChanged
  \/ ReloadData
  \/ ReloadReturn

ReloadSpec == ReloadInit /\ [][ReloadNext]_vars

\* The XML importer from its load step on, over the tree of a payload of
\* any shape: the state after fetch_supplier_data wrote the tree to the
\* cache file.  A text at the product path is left out (the loop would walk
\* its letters).
BrokenTrees ==
  { NoneNode,
    ListNode(<<>>),
    DictNode(<<>>),
    DictNode("ns0:PriceList" :> NoneNode),
    DictNode("ns0:PriceList" :> StrNode),
    DictNode("ns0:PriceList" :> DictNode("Other" :> StrNode)),
    DictNode("ns0:PriceList" :> DictNode("Products" :> StrNode)),
    DictNode("ns0:PriceList" :> DictNode("Products" :> ListNode(IsolationXmlSource))),
    DictNode("ns0:PriceList" :> DictNode("Products" :> DictNode("Item" :> ListNode(IsolationXmlSource)))),
    PriceListTree(NoneNode),
    PriceListTree(DictNode(<<>>)),
    PriceListTree(ListNode(<<>>)) }

Trees ==
  {PriceListTree(ProductNode(p)) : p \in XmlProducts}
    \cup {PriceListTree(ListNode(ps)) : ps \in XmlSources \ {<<>>}}
    \cup BrokenTrees

TreeInit ==
  /\ products \in InitStores
  /\ scripts = {"xml"}
  /\ xmlSource = <<>>
  /\ csvSource = NoCsv
  /\ pc = [i \in Importers |-> IF i = "xml" THEN "load" ELSE "idle"]
  /\ feed = [i \in Importers |-> <<>>]
  /\ pos = [i \in Importers |-> 1]
  /\ inserted = [i \in Importers |-> 0]
  /\ skipped = [i \in Importers |-> 0]
  /\ pending = [i \in Importers |-> <<>>]
  /\ connUp = [i \in Importers |-> FALSE]
  /\ failedAt = [i \in Importers |-> "none"]
  /\ summary = [i \in Importers |-> NoSummary]
  /\ prevRows = [i \in Importers |-> NoPrev]
  /\ attempt = 1
  /\ sleeps = 0
  /\ resp = <<>>
  /\ cacheFile \in {[exists |-> TRUE, data |-> tree] : tree \in Trees}
  /\ local_zip = "none"
  /\ stock_map = NoStock
  /\ SearchIdle
  /\ CacheIdle
  /\ PricingIdle
  /\ ReloadIdle

TreeNext ==
  \/ XmlLoad
  \/ Connect("xml")
  \/ XmlClear
  \/ XmlRecord
  \/ FinalCommit("xml")
  \/ ConnLost("xml")

TreeSpec == TreeInit /\ [][TreeNext]_vars

\* The two adapters price one net amount (cents), under a calculator whose
\* VAT_RATE is one of VatRates.
MaxNet == 40
VatRates == {0, 140, 240, PricingEngine_VAT_RATE}

PriceRecord ==
  \E net_price \in 0..MaxNet :
    /\ quote' = [known |-> TRUE, net |-> net_price,
                 xml |-> XmlGrossPrice(net_price),
                 csv |-> calculate_gross_price(net_price)]
    /\ quote' # quote
  /\ UNCHANGED <<importVars, searchVars, cacheVars, pricingRate, reload>>

PricingInit ==
  /\ products = <<>>
  /\ scripts = {}
  /\ xmlSource = <<>>
  /\ csvSource = NoCsv
  /\ ImportersIdle
  /\ SearchIdle
  /\ CacheIdle
  /\ pricingRate \in VatRates
  /\ quote = NoQuote
  /\ ReloadIdle

PricingSpec == PricingInit /\ [][PriceRecord]_vars

\* Weak fairness of the fetch loop: the script keeps running once started.
FairSpec == Spec /\ WF_vars(XmlAttempt) /\ WF_vars(CsvDownload)

\* ------------------------------------------------------------ claims C3-C9
\* The record importer i is about to process.
Current(i) == feed[i][pos[i]]
\* Importer i processes a record in this step.
Consumes(i) == pc[i] = "loop" /\ pos'[i] # pos[i]
\* An INSERT of importer i joined its transaction or was committed.
Inserts(i) == inserted'[i] # inserted[i]

MissingIdentity(i) ==
  IF i = "xml"
    THEN ~Current(i).IdentifiersIsList /\ Current(i).Barcode = "" /\ Current(i).ItemNumber = ""
    ELSE Current(i).product_id = "" /\ Current(i).ean = ""

\* C3: a raw record with neither a barcode/EAN nor an item number/product
\* key is never inserted by either importer and is counted as skipped.
C3_NoIdentityNeverPersisted ==
  [][\A i \in Importers :
       (Consumes(i) /\ MissingIdentity(i)) =>
         (~Inserts(i) /\ skipped'[i] = skipped[i] + 1)]_vars

\* The XML importer inserted a product that has no identifier at all.
C3_XmlPersistsNoIdentity ==
  \E k \in 1..Len(products) :
    products[k].supplier_id = SUPPLIER_ID_XML /\ products[k].ean = ""

\* C4: every stored row has price_inc = round(price * (1 + VAT_RATE), 2),
\* also after an insert that took the ON DUPLICATE KEY UPDATE branch.
C4_PriceInvariant ==
  \A k \in 1..Len(products) :
    products[k].price_inc = RoundDiv(products[k].price * (1000 + PricingEngine_VAT_RATE), 1000)

\* The record fails in the loop: its normalisation raises or its INSERT is
\* refused (by a constraint, or because the connection is gone).
RecordFails(i) ==
  \/ ~connUp[i]
  \/ Current(i).storeRejects
  \/ IF i = "xml" THEN Current(i).Barcode = "" /\ Current(i).IdentifiersIsList
     ELSE /\ Current(i).ncols >= MinCols
          /\ ~FinalStock(stock_map[Current(i).product_id], 0).ok
          /\ ~(Current(i).product_id = "" /\ Current(i).ean = "")

\* C5: a failure while normalising or inserting one record is caught in the
\* loop: skipped grows by one, the loop goes on with the next record (the run
\* is not failed by it), and a completed run reports both counters.
C5_RecordFailureContained ==
  /\ [][\A i \in Importers :
          Consumes(i) =>
            /\ pos'[i] = pos[i] + 1
            /\ pc'[i] \in {"loop", "commit"}
            /\ pc'[i] = "commit" <=> pos[i] = Len(feed[i])
            /\ RecordFails(i) => (skipped'[i] = skipped[i] + 1 /\ ~Inserts(i))]_vars
  /\ [](\A i \in Importers :
          (pc[i] = "done" /\ feed[i] # <<>>) =>
            summary[i] = [inserted |-> inserted[i], skipped |-> skipped[i]])

\* A run that skipped a failing record, inserted another and reported both.
C5_Witness ==
  /\ pc["xml"] = "done"
  /\ summary["xml"] = [inserted |-> 1, skipped |-> 1]
  /\ \E k \in 1..Len(feed["xml"]) : feed["xml"][k].storeRejects

C7_FailedOnlyFromFetching ==
  \A i \in Importers :
    pc[i] = "failed" =>
      /\ failedAt[i] \notin {"load", "connect", "clear", "loop", "commit"}
      /\ (i = "csv" => failedAt[i] # "parse")

\* The steps a run may take from each step.
PhaseSteps ==
  [idle |-> {"fetch"}, done |-> {"fetch"}, failed |-> {"fetch"},
   fetch |-> {"fetch", "parse", "failed"},
   parse |-> {"load", "connect", "failed"},
   load |-> {"connect", "done", "failed"},
   connect |-> {"clear", "failed"},
   clear |-> {"loop", "commit", "failed"},
   loop |-> {"loop", "commit"},
   commit |-> {"done", "failed"}]

\* C7 as amended: a run goes through fetch, parse, load, connect, clear, the
\* record loop and the final commit in that order; Failed is entered from
\* the fetch and from every later step outside the record loop, and never
\* from the record loop, whose failures become skips.
C7_FailedNeverFromLoop ==
  /\ [][\A i \in Importers : pc'[i] # pc[i] => pc'[i] \in PhaseSteps[pc[i]]]_vars
  /\ [](\A i \in Importers : pc[i] = "failed" <=> failedAt[i] # "none")
  /\ [](\A i \in Importers : failedAt[i] # "loop")

\* A run that fetched, then failed at its final commit, with a skip counted.
C7_Witness ==
  pc["csv"] = "failed" /\ failedAt["csv"] = "commit" /\ skipped["csv"] > 0

\* C8: when the store is unreachable in the record loop, the run is aborted
\* as failed, rather than the record being counted as skipped and the loop
\* going on.
C8_SystemicFailureAborts ==
  [][\A i \in Importers :
       (Consumes(i) /\ ~connUp[i]) => pc'[i] = "failed"]_vars

\* C9: a completed run that follows a completed run of the same supplier on
\* the same source leaves the supplier's rows as the earlier run left them.
C9_FullRefreshIdempotent ==
  \A i \in Importers :
    (pc[i] = "done" /\ prevRows[i].known) =>
      SameRows(SupplierRows(products, SupplierOf(i)), prevRows[i].rows)

\* A second completed run of a feed that stores two rows.
C9_Witness ==
  /\ pc["csv"] = "done"
  /\ prevRows["csv"].known
  /\ Len(prevRows["csv"].rows) = 2
  /\ \E k \in 1..2 : prevRows["csv"].rows[k].ean = NULL


\* ------------------------------------------------------ claims C1, C2, C10
\* The tokens of the pending request.
ReqTokens == split_search_terms(Strip(req.q))

\* tok occurs in text as a run of consecutive characters.
Contains(text, tok) ==
  \E k \in 0..(Len(text) - Len(tok)) : SubSeq(text, k + 1, k + Len(tok)) = tok

Min(a, b) == IF a < b THEN a ELSE b

\* C1: a query whose tokenisation is empty ends in the client error 400,
\* which is neither an empty result (200) nor a server error (500).
C1_EmptyTokensClientError ==
  [][(searchPc = "connected" /\ searchPc' = "responded" /\ ReqTokens = <<>>)
       => response'.status = 400]_vars

\* The rows the request's statement matches, and how many of them lie at or
\* after the requested offset.
ReqMatching == Matching(products, req.strict_mode, req.in_stock, ReqTokens)
ReqRemaining ==
  IF Len(ReqMatching) > req.offset THEN Len(ReqMatching) - req.offset ELSE 0
CheaperThan(price) ==
  Cardinality({k \in 1..Len(ReqMatching) : ReqMatching[k].price < price})
NotDearerThan(price) ==
  Cardinality({k \in 1..Len(ReqMatching) : ReqMatching[k].price <= price})

\* C2: the statement asks for limit + 1 rows at the offset; the response
\* holds the first min(M, limit) rows in ascending price, M being the
\* matching rows at or after the offset, and has_more is M > limit.
C2_Pagination ==
  (searchPc = "responded" /\ response.status = 200) =>
    /\ executed.fetch_limit = req.limit + 1
    /\ executed.offset = req.offset
    /\ Len(response.products) = Min(ReqRemaining, req.limit)
    /\ response.has_more <=> ReqRemaining > req.limit
    /\ \A j \in 1..Len(response.products) :
         /\ CheaperThan(response.products[j].price) <= req.offset + j - 1
         /\ NotDearerThan(response.products[j].price) >= req.offset + j

\* A full page from the middle of four matches, with more to come.
C2_Witness ==
  /\ searchPc = "responded"
  /\ response.status = 200
  /\ response.has_more
  /\ req.offset = 1
  /\ req.limit = 2
  /\ Len(response.products) = 2
  /\ Len(ReqMatching) = 4

\* C10: every product of a strict search holds every token in its name or
\* its brand, whatever the letter case, has stock when in_stock is set, and
\* the products come in ascending price.
C10_StrictSound ==
  (searchPc = "responded" /\ response.status = 200 /\ req.strict_mode) =>
    /\ \A j \in 1..Len(response.products) :
         LET p == response.products[j]
         IN  /\ \A k \in 1..Len(ReqTokens) :
                  \/ Contains(Lower(p.name), ReqTokens[k])
                  \/ Contains(Lower(p.brand), ReqTokens[k])
             /\ req.in_stock => p.stock > 0
    /\ \A a, b \in 1..Len(response.products) :
         a < b => response.products[a].price <= response.products[b].price

\* A strict search for two tokens with the stock filter that returns two
\* products and leaves two rows of the table out.
C10_Witness ==
  /\ searchPc = "responded"
  /\ response.status = 200
  /\ req.strict_mode
  /\ req.in_stock
  /\ Len(ReqTokens) = 2
  /\ ReqTokens[1] # ReqTokens[2]
  /\ Len(response.products) = 2
  /\ Len(products) = 4

\* ---------------------------------------------------------- claims C11-C20
\* C11: a strict search that yields no rows (first page) falls back to the
\* fuzzy query: the statement executed last is the fuzzy one and the response
\* carries its rows.
C11_StrictFallsBackToFuzzy ==
  [][(/\ searchPc = "connected"
      /\ searchPc' = "responded"
      /\ req.strict_mode
      /\ req.offset = 0
      /\ ReqTokens # <<>>
      /\ Matching(products, TRUE, req.in_stock, ReqTokens) = <<>>
      /\ response'.status = 200)
       => executed'.mode = "fuzzy"]_vars

\* The fuzzy statement is what a request with strict_mode disabled executes.
C11_FuzzyWhenStrictDisabled ==
  (searchPc = "responded" /\ executed.mode # "none") =>
    (executed.mode = "fuzzy" <=> ~req.strict_mode)

\* The stock a price-list line carries itself, as the importer reads it:
\* int(float(...)), and 0 when the line's numbers do not parse.
PrimaryStock(line) ==
  IF line.stock.k = "bad" \/ line.price.k = "bad" THEN 0
  ELSE IF line.stock.k = "num" THEN IntOfTenths(line.stock.v) ELSE 0

\* The row the statement of the current CSV line wrote: the row of its key,
\* or the row appended last when it has no EAN.
WrittenRow(table, line) ==
  IF line.ean # ""
    THEN table[CHOOSE k \in 1..Len(table) :
                 table[k].supplier_id = SUPPLIER_ID_CSV /\ table[k].ean = line.ean]
    ELSE table[Len(table)]

InsertOps(ops) == SelectSeq(ops, LAMBDA o : o.op = "insert")

\* The values the current record's INSERT carries.
WrittenVals(i) ==
  IF i = "xml" THEN XmlNormalize(Current(i)).vals
  ELSE CsvNormalize(Current(i), stock_map).vals

\* The importer that takes the step, if any.
Acts(i) == pc'[i] # pc[i] \/ pos'[i] # pos[i]

\* C13: the table changes only by a commit: the one after every BATCH_SIZE-th
\* insert, the one at the end of the loop, and the CSV importer's commit of
\* its DELETE.  In between, the open transaction holds exactly the inserts
\* made since the last multiple of BATCH_SIZE, so whenever the run stops the
\* inserts of the run that are in the table are a multiple of BATCH_SIZE.
C13_BatchDurability ==
  /\ [][\A i \in Importers :
          (Consumes(i) /\ Inserts(i) /\ inserted'[i] % BATCH_SIZE = 0 /\ skipped'[i] = skipped[i])
            => (pending'[i] = <<>> /\ products' = Apply(products, pending[i] \o <<InsertOp(WrittenVals(i))>>))]_vars
  /\ [][products' # products =>
          \E i \in Importers :
            /\ Acts(i)
            /\ connUp[i]
            /\ \/ pc[i] = "loop" /\ Inserts(i) /\ inserted'[i] % BATCH_SIZE = 0
               \/ pc[i] = "commit" /\ pc'[i] = "done"
               \/ i = "csv" /\ pc[i] = "clear"]_vars
  /\ [](\A i \in Importers :
          (pc[i] \in {"loop", "commit"} /\ connUp[i]) =>
            Len(InsertOps(pending[i])) = inserted[i] % BATCH_SIZE)
  /\ [](\A i \in Importers : ~connUp[i] => pending[i] = <<>>)

\* A run that failed at its final commit after a full batch was committed:
\* the batch's rows are in the table.
C13_Witness ==
  /\ pc["csv"] = "failed"
  /\ failedAt["csv"] = "commit"
  /\ inserted["csv"] = BATCH_SIZE
  /\ Len(SupplierRows(products, SUPPLIER_ID_CSV)) = BATCH_SIZE

\* The rows that do not belong to supplier sid, in table order.
OtherRows(table, sid) == SelectSeq(table, LAMBDA r : r.supplier_id # sid)

\* C14: whatever a run of supplier S does to the table, in any interleaving
\* with a run of the other supplier, the rows of every other supplier stay as
\* they are; its open transaction holds statements on S's rows only.
C14_SupplierIsolation ==
  /\ [][products' # products =>
          \E i \in Importers :
            /\ Acts(i)
            /\ \A j \in Importers \ {i} : ~Acts(j)
            /\ OtherRows(products', SupplierOf(i)) = OtherRows(products, SupplierOf(i))]_vars
  /\ [](\A i \in Importers : \A k \in 1..Len(pending[i]) :
          /\ pending[i][k].sid = SupplierOf(i)
          /\ OtherRows(ExecOp(products, pending[i][k]), SupplierOf(i))
               = OtherRows(products, SupplierOf(i)))

\* Both runs have an insert of the same EAN open at once, while the table
\* still holds the XML supplier's old row of that EAN.
C14_Witness ==
  /\ pc["xml"] = "loop"
  /\ pc["csv"] = "loop"
  /\ \E k \in 1..Len(pending["xml"]) :
       pending["xml"][k].op = "insert" /\ pending["xml"][k].row.ean = "e1"
  /\ \E k \in 1..Len(pending["csv"]) :
       pending["csv"][k].op = "insert" /\ pending["csv"][k].row.ean = "e1"
  /\ \E k \in 1..Len(products) : products[k] = OldXmlRow

\* Importer i is fetching, or (CSV, no SFTP configuration) is about to fail
\* on the archive it did not get.
FetchPending(i) ==
  \/ pc[i] = "fetch"
  \/ i = "csv" /\ pc[i] = "parse" /\ local_zip = "none"

\* C15: a run whose fetch fails executes no statement against the store: no
\* step of the fetch connects, executes or commits, a failed fetch ends the
\* run at once, the store steps are reached only with the downloaded data,
\* and the supplier's rows are those its previous completed run left.
C15_FailedFetchLeavesStore ==
  /\ [][\A i \in Importers :
          (FetchPending(i) /\ Acts(i)) =>
            /\ products' = products
            /\ pending'[i] = <<>>
            /\ ~connUp'[i]
            /\ pc'[i] \in {"fetch", "parse", "failed"}
            /\ pc[i] = "parse" => pc'[i] = "failed"]_vars
  /\ [](\A i \in Importers :
          FetchPending(i) => (pending[i] = <<>> /\ ~connUp[i]))
  /\ [](pc["csv"] \in {"connect", "clear", "loop", "commit"} => local_zip = "zip")
  /\ [](pc["xml"] \in {"connect", "clear", "loop", "commit"} => cacheFile.exists)
  /\ [](\A i \in Importers :
          (pc[i] = "failed" /\ failedAt[i] = "fetch" /\ prevRows[i].known) =>
            SupplierRows(products, SupplierOf(i)) = prevRows[i].rows)

\* After a completed run that stored rows, the next run's fetch gave up and
\* the rows are still there.
C15_Witness ==
  /\ pc["xml"] = "failed"
  /\ failedAt["xml"] = "fetch"
  /\ prevRows["xml"].known
  /\ prevRows["xml"].rows # <<>>
  /\ SupplierRows(products, SUPPLIER_ID_XML) = prevRows["xml"].rows

NormalizedSearch(r) ==
  [query |-> Strip(Lower(r.query)),
   brand |-> IF Active(r.brand) THEN r.brand ELSE None,
   category |-> IF Active(r.category) THEN r.category ELSE None]

\* C17: a request's key equals the key of a stored entry exactly when both
\* ask for the same normalized query and the same active filter values.
C17_KeyIdentity ==
  cachePc \in {"hit", "miss"} =>
    \A e \in search_cache :
      e.key = ReqKey <=> NormalizedSearch(e.by) = NormalizedSearch(cacheReq)

\* Two requests that ask for different searches meet under one key.
C17_KeyCollision ==
  /\ cachePc = "hit"
  /\ \E e \in search_cache :
       e.key = ReqKey /\ NormalizedSearch(e.by) # NormalizedSearch(cacheReq)

\* C18: every row of the table has stock >= 0, whatever the feeds hold.
C18_StockNonNegative ==
  \A k \in 1..Len(products) : products[k].stock >= 0

\* C19: whatever VAT_RATE the calculator holds, the gross price of the XML
\* importer and that of the CSV importer both equal
\* PricingEngine.calculate_gross_price(net).
C19_SingleVatSource ==
  quote.known =>
    /\ quote.xml = calculate_gross_price(quote.net)
    /\ quote.csv = calculate_gross_price(quote.net)

\* With the calculator's rate as shipped the two adapters agree.
C19_SameAsShipped ==
  (quote.known /\ pricingRate = VAT_RATE) => quote.xml = quote.csv

\* ------------------------------------------------------- POST /reload-data
\* The exit code of importer i's process when its run ended at step `at`
\* ("none": the function returned).  The XML script wraps both functions in
\* try/except and calls exit(1); the CSV script calls run_import_pipeline()
\* bare: a failed download is caught inside, logged, and the function
\* returns, every other exception leaves the interpreter with code 1.
ExitCode(i, at) ==
  IF at = "none" THEN 0
  ELSE IF i = "csv" /\ at = "fetch" THEN 0
  ELSE 1

\* subprocess.run(...) for script i: the entry of results[script_name].
\* Only the return code is modelled; log_tail is free text.
ScriptResult(i) == [return_code |-> ExitCode(i, failedAt[i])]

\* The body trigger_data_reload returns once the scripts it ran have ended.
trigger_data_reload ==
  [status |-> "success",
   details |-> [i \in {j \in Importers : pc[j] \in {"done", "failed"}} |-> ScriptResult(i)]]

\* C20: a run that failed fatally at the fetch (retries exhausted, download
\* failed) is marked as failed in the reload summary: its entry carries a
\* non-zero return code.
C20_FailedRunReported ==
  \A i \in Importers :
    (pc[i] = "failed" /\ failedAt[i] = "fetch") =>
      trigger_data_reload.details[i].return_code # 0

\* The XML importer's fatal failures do reach the summary as return code 1,
\* under a top-level status that still reads "success".
C20_XmlFailureHasCode ==
  pc["xml"] = "failed" =>
    /\ trigger_data_reload.details["xml"].return_code = 1
    /\ trigger_data_reload.status = "success"

\* ---------------------------------------------------------- claims C21-C29
\* The records the source of importer i holds in this behaviour.
SourceRecords(i) ==
  IF i = "xml" THEN ProductsList(XmlToDict(xmlSource)) ELSE csvSource.lines

\* The values importer i writes for record r of its source.
ValsOf(i, r) ==
  IF i = "xml" THEN XmlNormalize(r).vals ELSE CsvNormalize(r, csvSource.stock).vals

\* Row r is the row of some record of importer i's current source (an
\* upsert may have changed its price and stock).
FromSource(i, r) ==
  \E k \in 1..Len(SourceRecords(i)) :
    LET v == ValsOf(i, SourceRecords(i)[k])
    IN  /\ v.ean = r.ean
        /\ v.name = r.name
        /\ v.brand = r.brand
        /\ v.link = r.link

\* C21: when a run completes, every row of its supplier in the table is a
\* row of the current feed: rows of earlier runs that the feed does not
\* hold are gone, for every feed, the empty one included.
C21_RefreshReplacesPartition ==
  [][\A i \in Importers :
       (pc[i] # "done" /\ pc'[i] = "done") =>
         \A k \in 1..Len(products') :
           products'[k].supplier_id = SupplierOf(i) => FromSource(i, products'[k])]_vars

\* The CSV importer deletes and commits before it looks at the lines, so
\* its completed runs do replace the partition.
C21_CsvReplacesPartition ==
  [][(pc["csv"] # "done" /\ pc'["csv"] = "done") =>
       \A k \in 1..Len(products') :
         products'[k].supplier_id = SUPPLIER_ID_CSV => FromSource("csv", products'[k])]_vars

\* So do the XML importer's runs that get as far as the DELETE.
C21_XmlReplacesWhenFeedHasProducts ==
  [][(pc["xml"] = "commit" /\ pc'["xml"] = "done") =>
       \A k \in 1..Len(products') :
         products'[k].supplier_id = SUPPLIER_ID_XML => FromSource("xml", products'[k])]_vars

\* C22: at the load step, a single object at the product path is processed
\* as a one-element list, a list of n objects as n records, and a path with
\* a missing or non-mapping step yields no record and no exception: the
\* function returns, the table untouched.
C22_ListOrObject ==
  /\ [](pc["xml"] = "load" =>
          /\ \A p \in XmlProducts :
               cacheFile.data = PriceListTree(ProductNode(p)) =>
                 ProductsList(cacheFile.data) = <<p>>
          /\ \A ps \in XmlSources :
               cacheFile.data = PriceListTree(ListNode(ps)) =>
                 ProductsList(cacheFile.data) = ps
          /\ cacheFile.data \in BrokenTrees => ProductsList(cacheFile.data) = <<>>)
  /\ [][(pc["xml"] = "load" /\ pc'["xml"] # "failed") =>
          /\ \A p \in XmlProducts :
               cacheFile.data = PriceListTree(ProductNode(p)) =>
                 feed'["xml"] = <<p>> /\ pc'["xml"] = "connect"
          /\ \A ps \in XmlSources \ {<<>>} :
               cacheFile.data = PriceListTree(ListNode(ps)) =>
                 feed'["xml"] = ps /\ pc'["xml"] = "connect"
          /\ cacheFile.data \in BrokenTrees =>
               pc'["xml"] = "done" /\ feed'["xml"] = <<>> /\ products' = products]_vars
  /\ [](pc["xml"] = "done" /\ summary["xml"] # NoSummary =>
          summary["xml"].inserted + summary["xml"].skipped
            = Len(ProductsList(cacheFile.data)))

\* A single <Product> mapping went through the loop as one record and was
\* stored.
C22_Witness ==
  /\ pc["xml"] = "done"
  /\ \E p \in XmlProducts : cacheFile.data = PriceListTree(ProductNode(p))
  /\ summary["xml"] = [inserted |-> 1, skipped |-> 0]
  /\ \E k \in 1..Len(products) : products[k].supplier_id = SUPPLIER_ID_XML

\* A tree without the product path ended the function quietly.
C22_MissingPathReturns ==
  /\ pc["xml"] = "done"
  /\ cacheFile.data \in BrokenTrees
  /\ summary["xml"] = NoSummary

\* C23: every response of the cached search holds at most `limit` products
\* and equals the result of the store query for the request's own
\* parameters, computed or served from the cache.
C23_ResponseWithinLimit ==
  (cachePc = "responded" /\ cacheResp.status = 200) =>
    /\ Len(cacheResp.result) <= cacheReq.limit
    /\ cacheResp.result = QueryStore(cacheReq.query, cacheReq.brand, cacheReq.category,
                                     cacheReq.limit)

\* A computed response does keep to the request's own limit.
C23_ComputedWithinLimit ==
  (cachePc = "responded" /\ cacheResp.status = 200 /\ ~cacheResp.cached) =>
    Len(cacheResp.result) <= cacheReq.limit

\* C26: a request that found its key in the cache returns the stored value:
\* the read that follows the membership test does not fail.
C26_CheckThenReadSafe ==
  [][(cachePc = "hit" /\ cachePc' = "responded") =>
       /\ cacheResp'.status = 200
       /\ cacheResp'.cached]_vars

\* A raw number resolved on its own: its value, 0 when it does not parse.
OwnDefault(raw) == IF ParseFloat(raw).ok THEN ParseFloat(raw).v ELSE 0

\* The current record has what it takes to be stored, numbers aside.
Storable(i) ==
  /\ connUp[i]
  /\ ~Current(i).storeRejects
  /\ IF i = "xml" THEN ~(Current(i).Barcode = "" /\ Current(i).IdentifiersIsList)
     ELSE Current(i).ncols >= MinCols /\ ~(Current(i).product_id = "" /\ Current(i).ean = "")

\* The price and the stock the current record should be stored with when
\* each is resolved independently.
OwnPrice(i) ==
  IF i = "xml" THEN OwnDefault(Current(i).NetPrice) ELSE OwnDefault(Current(i).price)
OwnStock(i) ==
  IF i = "xml" THEN IntOfTenths(OwnDefault(Current(i).OnHand))
  ELSE IF Truthy(stock_map[Current(i).product_id])
    THEN IntOfTenths(OwnDefault(stock_map[Current(i).product_id]))
    ELSE IntOfTenths(OwnDefault(Current(i).stock))

\* C24: price and stock are resolved independently: a value that does not
\* parse becomes 0, the other keeps its parsed value, and the record is
\* stored; for the primary stock field and the secondary stock value.
C24_IndependentDefaults ==
  [][\A i \in Importers :
       (Consumes(i) /\ Storable(i)) =>
         /\ Inserts(i)
         /\ WrittenVals(i).price = OwnPrice(i)
         /\ WrittenVals(i).stock = OwnStock(i)]_vars

\* When both numbers parse (and so does the secondary stock), the record is
\* stored with them.
C24_BothParse ==
  [][\A i \in Importers :
       (/\ Consumes(i) /\ Storable(i)
        /\ ParseFloat(IF i = "xml" THEN Current(i).NetPrice ELSE Current(i).price).ok
        /\ ParseFloat(IF i = "xml" THEN Current(i).OnHand ELSE Current(i).stock).ok
        /\ i = "csv" => ParseFloat(stock_map[Current(i).product_id]).ok) =>
         /\ Inserts(i)
         /\ WrittenVals(i).price = OwnPrice(i)
         /\ WrittenVals(i).stock = OwnStock(i)]_vars

\* C25: in the record loop, inserted + skipped equals the number of records
\* consumed so far, also after a batch commit failed; a completed run
\* reports counters that add up to the number of raw records.
C25_CounterInvariant ==
  \A i \in Importers :
    /\ pc[i] \in {"loop", "commit"} => inserted[i] + skipped[i] = pos[i] - 1
    /\ (pc[i] = "done" /\ summary[i] # NoSummary) =>
         summary[i].inserted + summary[i].skipped = Len(feed[i])

\* Each record is counted once as long as every batch commit went through.
C25_CountedOnceWhileConnected ==
  \A i \in Importers :
    (pc[i] \in {"loop", "commit"} /\ connUp[i]) => inserted[i] + skipped[i] = pos[i] - 1

\* The counters of a completed run add up.
C25_CompletedRunAddsUp ==
  \A i \in Importers :
    (pc[i] = "done" /\ summary[i] # NoSummary) =>
      summary[i].inserted + summary[i].skipped = Len(feed[i])

\* Row r was written by importer i from its current source: its identity
\* is that of a record of the source, its price and stock are those of a
\* record of the source.
NewRow(i, r) ==
  /\ FromSource(i, r)
  /\ \E k \in 1..Len(SourceRecords(i)) :
       LET v == ValsOf(i, SourceRecords(i)[k])
       IN  v.price = r.price /\ v.stock = r.stock

\* C27: what a reader of the committed table sees while a full refresh is
\* in progress.  Whenever the run changes the table, the supplier's old rows
\* are gone and the rows there are new ones, no more than the run has
\* inserted so far (possibly none); the rows of other suppliers stay as they
\* are throughout.
C27_PartialCatalogConfined ==
  [][\A i \in Importers :
       (Acts(i) /\ pc[i] \in {"clear", "loop", "commit"}) =>
         /\ OtherRows(products', SupplierOf(i)) = OtherRows(products, SupplierOf(i))
         /\ products' # products =>
              /\ \A k \in 1..Len(products') :
                   products'[k].supplier_id = SupplierOf(i) => NewRow(i, products'[k])
              /\ Len(SupplierRows(products', SupplierOf(i))) <= inserted'[i]]_vars

\* In the middle of the CSV run's loop: the supplier's old row is gone from
\* the committed table, none of the new rows is there yet (one insert is
\* still uncommitted), the other supplier's row is in place.
C27_Witness ==
  /\ pc["csv"] = "loop"
  /\ connUp["csv"]
  /\ pos["csv"] = 2
  /\ Len(feed["csv"]) = 2
  /\ Len(InsertOps(pending["csv"])) = 1
  /\ products = <<OldXmlRow>>

\* C28: whenever a fetch attempt succeeded, the payload is in the local
\* artifact before parsing begins: the artifact exists when parsing is about
\* to start and when parsing has failed.
C28_PersistBeforeParse ==
  (\/ pc["xml"] = "parse"
   \/ pc["xml"] = "failed" /\ failedAt["xml"] = "parse") => cacheFile.exists

\* The artifact is there once parsing has succeeded, and holds the parsed
\* tree of the payload.
C28_PersistAfterParse ==
  pc["xml"] \in {"load", "connect", "clear", "loop", "commit"} =>
    cacheFile = [exists |-> TRUE, data |-> XmlToDict(resp)]

\* C29: the scripts are launched only when the Authorization header is
\* exactly "Bearer " followed by the configured token; every other header is
\* answered 401 with nothing launched; with an empty token no request is
\* authorized.
C29_ReloadAuthorization ==
  reload.pc = "responded" =>
    /\ reload.launched <=>
         /\ reload.given
         /\ reload.token # <<>>
         /\ reload.header = TxtBearer \o <<" ">> \o reload.token
    /\ ~reload.launched => reload.status = 401

\* What the check does guarantee: nothing is launched without a header that
\* begins with "Bearer ", a rejected request is answered 401, and the exact
\* header of a configured token is accepted.
C29_BearerPrefixRequired ==
  reload.pc = "responded" =>
    /\ reload.launched =>
         /\ reload.given
         /\ Len(reload.header) >= 7
         /\ SubSeq(reload.header, 1, 7) = TxtBearer \o <<" ">>
    /\ ~reload.launched <=> reload.status = 401
    /\ (/\ reload.given /\ reload.token # <<>>
        /\ reload.header = TxtBearer \o <<" ">> \o reload.token) => reload.launched

====
